---- MODULE Spec2Model ----
(***************************************************************************)
(* A model of apply_issue.py: one run of main(), from argument parsing to  *)
(* the process exit code.  The review server (rietveld), the checkout      *)
(* (scm / checkout) and the gclient subprocess are the environment: each   *)
(* call to them either returns a value drawn from a small set or raises    *)
(* one of the exception classes the code has except clauses for.           *)
(***************************************************************************)
EXTENDS Integers, Sequences, FiniteSets, TLC

\* ------------------------------------------------------------- bounds
MaxIssue == 2        \* issues 1..MaxIssue exist on the server
MaxPatchset == 2     \* an issue has at most MaxPatchset patchsets
MaxPlanLen == 3      \* resolution is cut off when the plan has this many entries
MaxPatches == 2      \* a fetched patchset holds at most MaxPatches patches
MaxRetcode == 4      \* the gclient subprocess exits with 0..MaxRetcode

\* ------------------------------------------------- program constants
RETURN_CODE_OK == 0
RETURN_CODE_OTHER_FAILURE == 1
RETURN_CODE_ARGPARSE_FAILURE == 2
RETURN_CODE_INFRA_FAILURE == 3

\* The process has not exited yet.
Running == -1

\* ------------------------------------------------------- value domains
Issues == 1..MaxIssue
Patchsets == 1..MaxPatchset
\* (issue, patchset) pairs, as kept in issues_patchsets_to_apply.
Refs == Issues \X Patchsets

\* A filename is its sequence of path components.
DEPS_FILE == <<"src", "DEPS">>
OTHER_FILE == <<"src", "a.cc">>
Filenames == {DEPS_FILE, OTHER_FILE}

\* os.path.basename: the last path component.
Basename(filename) == filename[Len(filename)]

\* Python None / a present value, for values whose type is a record or tuple.
None == <<>>
Some(v) == <<v>>

RECURSIVE SeqsUpTo(_, _)
SeqsUpTo(S, n) ==
  IF n = 0 THEN {<<>>}
  ELSE LET shorter == SeqsUpTo(S, n - 1)
       IN  shorter \cup {Append(s, x) : s \in shorter, x \in S}

Range(s) == {s[i] : i \in 1..Len(s)}

\* The patch lists a patchset of the server can hold: no file twice.
PatchLists(files) ==
  {s \in SeqsUpTo(files, MaxPatches) : Cardinality(Range(s)) = Len(s)}

\* --------------------------------------------------------- exceptions
\* urllib2.URLError > urllib2.HTTPError > rietveld.upload.ClientLoginError.
URLError == [class |-> "URLError", code |-> 0]
HTTPError(code) == [class |-> "HTTPError", code |-> code]
ClientLoginError == [class |-> "ClientLoginError", code |-> 403]

\* What a call to the review server can raise: a transport fault, a login
\* redirect, a missing issue or patchset, rejected credentials.
Exceptions == {URLError, HTTPError(302), HTTPError(404), ClientLoginError}

Ancestors(class) ==
  CASE class = "URLError" -> {"URLError"}
    [] class = "HTTPError" -> {"HTTPError", "URLError"}
    [] class = "ClientLoginError" -> {"ClientLoginError", "HTTPError", "URLError"}

\* `except cls:` catches e.
IsInstance(e, cls) == cls \in Ancestors(e.class)

VARIABLES
  options,                    \* the parsed command line
  workdir,                    \* the working directory the run starts in
  server,                     \* what the review server hosts
  pc,                         \* position of main()
  exit_code,                  \* the process exit code, Running until it exits
  uncaught,                   \* the run ended by an exception no clause caught
  rietveld_obj,               \* the client in use
  properties,                 \* issue properties: its patchset ids, or None
  issues_patchsets_to_apply,  \* the application plan
  depends_on_info,            \* last answer of get_depends_on_patchset
  reported,                   \* the dependency link the server gave for each ref asked
  index,                      \* the plan entry the for loop is at (1-based)
  fetched,                    \* patches of the current entry as the server gave them
  patchset,                   \* patchset.patches of the current entry, filtered
  scm_type,                   \* scm.determine_scm(full_dir)
  checkout,                   \* the entries applied to the working copy, in order
  touched,                    \* filenames of all patchsets applied so far
  gclient_root,               \* gclient_utils.FindGclientRoot(full_dir)
  cmd,                        \* the command line of the subprocess called
  retcode,                    \* what subprocess.call returned
  calls                       \* every call made to the server, checkout, gclient

vars == <<options, workdir, server, pc, exit_code, uncaught, rietveld_obj,
          properties, issues_patchsets_to_apply, depends_on_info, reported,
          index, fetched, patchset, scm_type, checkout, touched, gclient_root,
          cmd, retcode, calls>>

\* ------------------------------------------------------------ inputs
FilterLists == SUBSET Filenames
ScmTypes == {"svn", "git", "none"}

\* The command line without any option but --issue 1: optparse gives every
\* other option its default (patchset 0: not given).
DefaultOptions ==
  [whitelist |-> {}, blacklist |-> {}, email |-> FALSE, email_file |-> FALSE,
   force |-> FALSE, private_key_file |-> FALSE, no_auth |-> FALSE,
   ignore_deps |-> FALSE, revision_mapping |-> FALSE, issue |-> 1,
   patchset |-> 0]

\* The command lines that differ from the default one in the options read
\* before the first network call.
ArgumentOptions ==
  {[DefaultOptions EXCEPT !.whitelist = w, !.blacklist = b, !.email = e,
                          !.email_file = ef, !.force = f, !.issue = i] :
     w \in FilterLists, b \in FilterLists, e \in BOOLEAN, ef \in BOOLEAN,
     f \in BOOLEAN, i \in 0..MaxIssue}

\* ... in the options read while the issue is read.
ReadOptions ==
  {[DefaultOptions EXCEPT !.private_key_file = k, !.no_auth = n,
                          !.issue = i, !.patchset = p, !.revision_mapping = r] :
     k \in BOOLEAN, n \in BOOLEAN, i \in Issues, p \in 0..MaxPatchset,
     r \in BOOLEAN}

\* ... in the options read while the plan is applied.
ApplyOptions ==
  {[DefaultOptions EXCEPT !.whitelist = w, !.blacklist = b, !.ignore_deps = d] :
     w \in FilterLists, b \in FilterLists, d \in BOOLEAN}

\* A review server: the issues its dependency links point to and the files
\* its patchsets touch.
Server(linked, files) == [linked |-> linked, files |-> files]

\* A working directory: whether update.flag is in it, what scm it is a
\* checkout of, whether it is inside a gclient checkout.
Workdir(flag, scm, root) ==
  [update_flag |-> flag, scm |-> scm, gclient_root |-> root]

GclientRoots == {"None", "gclient_root"}
DefaultWorkdir == Workdir(FALSE, "git", "gclient_root")

InitWith(opts, servers, workdirs) ==
  /\ options \in opts
  /\ workdir \in workdirs
  /\ server \in servers
  /\ pc = "start"
  /\ exit_code = Running
  /\ uncaught = FALSE
  /\ rietveld_obj = "unset"
  /\ properties = None
  /\ issues_patchsets_to_apply = <<>>
  /\ depends_on_info = None
  /\ reported = <<>>
  /\ index = 0
  /\ fetched = <<>>
  /\ patchset = <<>>
  /\ scm_type = "unset"
  /\ checkout = <<>>
  /\ touched = {}
  /\ gclient_root = "unset"
  /\ cmd = <<>>
  /\ retcode = Running
  /\ calls = <<>>

\* The runs explored.  The command line, the server and the working directory
\* are drawn together, family by family: the options read before the first
\* call and the options of the issue read against a server without dependency
\* links; the default command line against a server whose links point to
\* every issue; the options of the apply loop against a server with links
\* among the patchsets of one issue and, without links, in every kind of
\* working directory.
Init ==
  \/ InitWith(ArgumentOptions, {Server({}, {DEPS_FILE})},
              {Workdir(flag, "git", "gclient_root") : flag \in BOOLEAN})
  \/ InitWith(ReadOptions, {Server({}, {DEPS_FILE})}, {DefaultWorkdir})
  \/ InitWith({DefaultOptions}, {Server(Issues, {OTHER_FILE})}, {DefaultWorkdir})
  \/ InitWith(ApplyOptions, {Server({1}, Filenames)}, {DefaultWorkdir})
  \/ InitWith(ApplyOptions, {Server({}, Filenames)},
              {Workdir(FALSE, scm, root) : scm \in ScmTypes, root \in GclientRoots})

\* ----------------------------------------------------------- helpers
\* One entry of the call log: the call, the client it was made with, its
\* argument, and "ok" or the class and http code of what it raised.
Call(op, client, arg, result, code) ==
  [op |-> op, client |-> client, arg |-> arg, result |-> result, code |-> code]

Returned(op, client, arg) == Append(calls, Call(op, client, arg, "ok", 0))
Raised(op, client, arg, e) == Append(calls, Call(op, client, arg, e.class, e.code))

\* sys.exit(code), or main() returning code to sys.exit(main()).
Exit(code) ==
  /\ pc' = "done"
  /\ exit_code' = code
  /\ uncaught' = FALSE

\* An exception that no except clause of main() catches: the interpreter
\* prints the traceback and exits with status 1.
Uncaught ==
  /\ pc' = "done"
  /\ exit_code' = 1
  /\ uncaught' = TRUE

\* How a handler ends the run.
Fail(how) ==
  CASE how = "infra" -> Exit(RETURN_CODE_INFRA_FAILURE)
    [] how = "other" -> Exit(RETURN_CODE_OTHER_FAILURE)
    [] how = "exit" -> Exit(1)
    [] how = "raise" -> Uncaught

\* The (issue, patchset) the run was asked to apply.
Requested == <<options.issue, options.patchset>>

\* ------------------------------------------------------ ParseArgs
\* The --whitelist/--blacklist conflict is not checked.
ArgsOutcome_NoFilterCheck ==
  IF options.email /\ options.email_file THEN "error"
  ELSE IF workdir.update_flag /\ ~options.force THEN "flag"
  ELSE IF options.issue = 0 THEN "error"
  ELSE "ok"

\* update.flag is not looked for.
ArgsOutcome_NoFlagCheck ==
  IF options.whitelist # {} /\ options.blacklist # {} THEN "error"
  ELSE IF options.email /\ options.email_file THEN "error"
  ELSE IF options.issue = 0 THEN "error"
  ELSE "ok"

\* Lines 107-129: what the checks before the first network call decide.
ArgsOutcome ==
  IF options.whitelist # {} /\ options.blacklist # {} THEN "error"
  ELSE IF options.email /\ options.email_file THEN "error"
  ELSE IF workdir.update_flag /\ ~options.force THEN "flag"
  ELSE IF options.issue = 0 THEN "error"
  ELSE "ok"

\* Lines 104-139: option checks and the update.flag short-circuit.  The
\* command lines explored have no extra argument, a server and no email file.
ParseArgs ==
  /\ pc = "start"
  /\ CASE ArgsOutcome = "error" -> Exit(RETURN_CODE_ARGPARSE_FAILURE)
       [] ArgsOutcome = "flag" -> Exit(0)
       [] ArgsOutcome = "ok" -> /\ pc' = "connect"
                                /\ UNCHANGED <<exit_code, uncaught>>
  /\ UNCHANGED <<options, workdir, server, rietveld_obj, properties,
                 issues_patchsets_to_apply, depends_on_info, reported, index,
                 fetched, patchset, scm_type, checkout, touched, gclient_root,
                 cmd, retcode, calls>>

\* ------------------------------------------- get_issue_properties
\* The properties of an issue: its patchset ids, oldest first.
IssueProperties == {[i \in 1..n |-> i] : n \in Patchsets}

\* Lines 186-187: the patchset applied is the one given, else the last one.
ChoosePatchset(props) ==
  IF options.patchset = 0 THEN props[Len(props)] ELSE options.patchset

\* Lines 186-190: default the patchset and start the plan with the requested
\* (issue, patchset).
StartPlan(props) ==
  /\ properties' = props
  /\ options' = [options EXCEPT !.patchset = ChoosePatchset(props)]
  /\ issues_patchsets_to_apply' = << <<options.issue, ChoosePatchset(props)>> >>
  /\ pc' = "depends_on"
  /\ UNCHANGED <<exit_code, uncaught>>

\* The private key is not looked at.
UsesOAuth2_Never == FALSE

\* Line 142: if options.private_key_file
UsesOAuth2 == options.private_key_file

\* Lines 149-151: the except clause of the OAuth2 read.
OnOAuth2Error(e) ==
  IF IsInstance(e, "URLError") THEN "infra" ELSE "raise"

\* Lines 142-151: OAuth2 with the private key, no fallback.
OAuth2Read ==
  /\ pc = "connect"
  /\ UsesOAuth2
  /\ rietveld_obj' = "JwtOAuth2Rietveld"
  /\ \/ \E props \in IssueProperties :
          /\ StartPlan(props)
          /\ calls' = Returned("get_issue_properties", "JwtOAuth2Rietveld",
                               <<options.issue>>)
     \/ \E e \in Exceptions :
          /\ Fail(OnOAuth2Error(e))
          /\ calls' = Raised("get_issue_properties", "JwtOAuth2Rietveld",
                             <<options.issue>>, e)
          /\ UNCHANGED <<options, properties, issues_patchsets_to_apply>>
  /\ UNCHANGED <<workdir, server, depends_on_info, reported, index,
                 fetched, patchset, scm_type, checkout, touched, gclient_root,
                 cmd, retcode>>

\* --no-auth is not looked at: a login redirect always falls back.
OnAnonymousError_IgnoresNoAuth(e) ==
  IF IsInstance(e, "HTTPError")
    THEN IF e.code # 302 THEN "raise" ELSE "login"
  ELSE IF IsInstance(e, "URLError") THEN "infra"
  ELSE "raise"

\* Lines 161-173: the except clauses of the unauthenticated read, in order.
OnAnonymousError(e) ==
  IF IsInstance(e, "HTTPError")
    THEN IF e.code # 302 THEN "raise"
         ELSE IF options.no_auth THEN "exit"
         ELSE "login"
  ELSE IF IsInstance(e, "URLError") THEN "infra"
  ELSE IF IsInstance(e, "ClientLoginError") THEN "login"
  ELSE "raise"

\* Lines 152-173: the first read is made without authentication.
AnonymousRead ==
  /\ pc = "connect"
  /\ ~UsesOAuth2
  /\ rietveld_obj' = "Rietveld(None)"
  /\ \/ \E props \in IssueProperties :
          /\ StartPlan(props)
          /\ calls' = Returned("get_issue_properties", "Rietveld(None)",
                               <<options.issue>>)
     \/ \E e \in Exceptions :
          /\ IF OnAnonymousError(e) = "login"
               THEN /\ pc' = "login"
                    /\ UNCHANGED <<exit_code, uncaught>>
               ELSE Fail(OnAnonymousError(e))
          /\ calls' = Raised("get_issue_properties", "Rietveld(None)",
                             <<options.issue>>, e)
          /\ UNCHANGED <<options, properties, issues_patchsets_to_apply>>
  /\ UNCHANGED <<workdir, server, depends_on_info, reported, index,
                 fetched, patchset, scm_type, checkout, touched, gclient_root,
                 cmd, retcode>>

\* Lines 179-184: the except clauses of the authenticated read.
OnAuthenticatedError(e) ==
  IF IsInstance(e, "ClientLoginError") THEN "other"
  ELSE IF IsInstance(e, "URLError") THEN "infra"
  ELSE "raise"

\* Lines 174-184: properties is None, the read is made again with
\* auth_config.
AuthenticatedRead ==
  /\ pc = "login"
  /\ rietveld_obj' = "Rietveld(auth_config)"
  /\ \/ \E props \in IssueProperties :
          /\ StartPlan(props)
          /\ calls' = Returned("get_issue_properties", "Rietveld(auth_config)",
                               <<options.issue>>)
     \/ \E e \in Exceptions :
          /\ Fail(OnAuthenticatedError(e))
          /\ calls' = Raised("get_issue_properties", "Rietveld(auth_config)",
                             <<options.issue>>, e)
          /\ UNCHANGED <<options, properties, issues_patchsets_to_apply>>
  /\ UNCHANGED <<workdir, server, depends_on_info, reported, index,
                 fetched, patchset, scm_type, checkout, touched, gclient_root,
                 cmd, retcode>>

\* ------------------------------------------ get_depends_on_patchset
\* The answers the server can give for ref: the one it gave before, or else
\* no dependency or a link to any patchset of an issue it links to.
DependsOnAnswers(ref) ==
  IF ref \in DOMAIN reported THEN {reported[ref]}
  ELSE {None} \cup
       {Some([issue |-> i, patchset |-> p]) : i \in server.linked, p \in Patchsets}

\* Lines 199-200: the (issue, patchset) a dependency link names.
LinkRef(info) == <<info[1].issue, info[1].patchset>>

\* An http error of the first query is taken as an operation failure.
OnFirstDependsOnError_HttpIsOther(e) ==
  IF IsInstance(e, "HTTPError") THEN "other"
  ELSE IF IsInstance(e, "URLError") THEN "infra"
  ELSE "raise"

\* Lines 194-196: the except clause of the first dependency query.
OnFirstDependsOnError(e) ==
  IF IsInstance(e, "URLError") THEN "infra" ELSE "raise"

\* Lines 191-196: the dependency of the requested patchset.
FirstDependsOn ==
  /\ pc = "depends_on"
  /\ \/ \E answer \in DependsOnAnswers(Requested) :
          /\ depends_on_info' = answer
          /\ reported' = (Requested :> answer) @@ reported
          /\ calls' = Returned("get_depends_on_patchset", rietveld_obj, Requested)
          /\ pc' = IF answer # None THEN "resolve" ELSE "fetch"
          /\ index' = IF answer # None THEN index ELSE 1
          /\ UNCHANGED <<exit_code, uncaught>>
     \/ \E e \in Exceptions :
          /\ Fail(OnFirstDependsOnError(e))
          /\ calls' = Raised("get_depends_on_patchset", rietveld_obj, Requested, e)
          /\ UNCHANGED <<depends_on_info, reported, index>>
  /\ UNCHANGED <<options, workdir, server, rietveld_obj, properties,
                 issues_patchsets_to_apply, fetched, patchset, scm_type,
                 checkout, touched, gclient_root, cmd, retcode>>

\* The dependency is added at the end of the plan.
Insert0_AtEnd(plan, ref) == Append(plan, ref)

\* Line 204: issues_patchsets_to_apply.insert(0, ref)
Insert0(plan, ref) == <<ref>> \o plan

\* Every error of a dependency query is taken as a missing dependency.
OnDependencyError_AllMissing(e) == "stop"

\* The URLError clause comes first and catches HTTPError too.
OnDependencyError_UrlErrorFirst(e) ==
  IF IsInstance(e, "URLError") THEN "infra"
  ELSE IF IsInstance(e, "HTTPError") THEN "stop"
  ELSE "raise"

\* Lines 206-215: the except clauses of a dependency query in the loop, in
\* order: "stop" ends the resolution and keeps the plan.
OnDependencyError(e) ==
  IF IsInstance(e, "HTTPError") THEN "stop"
  ELSE IF IsInstance(e, "URLError") THEN "infra"
  ELSE "raise"

\* Lines 198-215: one turn of the while loop.
ResolveDependency ==
  /\ pc = "resolve"
  /\ depends_on_info # None
  /\ Len(issues_patchsets_to_apply) < MaxPlanLen
  /\ LET depends_on == LinkRef(depends_on_info)
     IN  \/ \E answer \in DependsOnAnswers(depends_on) :
               /\ depends_on_info' = answer
               /\ reported' = (depends_on :> answer) @@ reported
               /\ issues_patchsets_to_apply' =
                    Insert0(issues_patchsets_to_apply, depends_on)
               /\ calls' = Returned("get_depends_on_patchset", rietveld_obj, depends_on)
               /\ pc' = IF answer # None THEN "resolve" ELSE "fetch"
               /\ index' = IF answer # None THEN index ELSE 1
               /\ UNCHANGED <<exit_code, uncaught>>
         \/ \E e \in Exceptions :
               /\ IF OnDependencyError(e) = "stop"
                    THEN /\ depends_on_info' = None
                         /\ pc' = "fetch"
                         /\ index' = 1
                         /\ UNCHANGED <<exit_code, uncaught>>
                    ELSE /\ Fail(OnDependencyError(e))
                         /\ UNCHANGED <<depends_on_info, index>>
               /\ calls' = Raised("get_depends_on_patchset", rietveld_obj, depends_on, e)
               /\ UNCHANGED <<reported, issues_patchsets_to_apply>>
  /\ UNCHANGED <<options, workdir, server, rietveld_obj, properties,
                 fetched, patchset, scm_type, checkout, touched, gclient_root,
                 cmd, retcode>>

\* ------------------------------------------------------- get_patch
\* The blacklist keeps the listed files instead of dropping them.
FilterPatches_BlacklistKeeps(patches) ==
  LET kept == IF options.whitelist # {}
                THEN SelectSeq(patches, LAMBDA f : f \in options.whitelist)
                ELSE patches
  IN  IF options.blacklist # {}
        THEN SelectSeq(kept, LAMBDA f : f \in options.blacklist)
        ELSE kept

\* Lines 250-255: the whitelist, then the blacklist.
FilterPatches(patches) ==
  LET kept == IF options.whitelist # {}
                THEN SelectSeq(patches, LAMBDA f : f \in options.whitelist)
                ELSE patches
  IN  IF options.blacklist # {}
        THEN SelectSeq(kept, LAMBDA f : f \notin options.blacklist)
        ELSE kept

\* Lines 236-249: the except clauses of get_patch, in order.
OnGetPatchError(e) ==
  IF IsInstance(e, "HTTPError") THEN "other"
  ELSE IF IsInstance(e, "URLError") THEN "infra"
  ELSE "raise"

\* Lines 230-267: fetch the current entry, filter it, determine the scm.
GetPatch ==
  /\ pc = "fetch"
  /\ LET ref == issues_patchsets_to_apply[index]
     IN  \/ \E patches \in PatchLists(server.files) :
               /\ fetched' = patches
               /\ patchset' = FilterPatches(patches)
               /\ scm_type' = workdir.scm
               /\ calls' = Returned("get_patch", rietveld_obj, ref)
               /\ pc' = "apply"
               /\ UNCHANGED <<exit_code, uncaught>>
         \/ \E e \in Exceptions :
               /\ Fail(OnGetPatchError(e))
               /\ calls' = Raised("get_patch", rietveld_obj, ref, e)
               /\ UNCHANGED <<fetched, patchset, scm_type>>
  /\ UNCHANGED <<options, workdir, server, rietveld_obj, properties,
                 issues_patchsets_to_apply, depends_on_info, reported, index,
                 checkout, touched, gclient_root, cmd, retcode>>

\* ----------------------------------------------------- apply_patch
\* What scm_obj.apply_patch(patchset) can do: PatchApplicationFailed is
\* raised for a patch that does not apply, so not for an empty list.
ApplyOutcomes(patches) ==
  IF patches = <<>> THEN {"ok"} ELSE {"ok", "PatchApplicationFailed"}

\* Applying ref resets what was applied before it.
Applied_Reset(tree, ref) == <<ref>>

\* The checkout after a successful apply_patch of ref.
Applied(tree, ref) == Append(tree, ref)

\* The loop stays on the entry it has just applied.
NextIndex_Same(i) == i

\* Line 230: the for loop moves to the next entry of the plan.
NextIndex(i) == i + 1

\* Lines 278-285, and the loop's step to the next entry.
ApplyPatch ==
  /\ pc = "apply"
  /\ LET ref == issues_patchsets_to_apply[index]
     IN  \E outcome \in ApplyOutcomes(patchset) :
           /\ calls' = Append(calls, Call("apply_patch", scm_type, ref, outcome, 0))
           /\ IF outcome = "ok"
                THEN /\ checkout' = Applied(checkout, ref)
                     /\ touched' = touched \cup Range(patchset)
                     /\ IF index < Len(issues_patchsets_to_apply)
                          THEN /\ index' = NextIndex(index)
                               /\ pc' = "fetch"
                          ELSE /\ index' = index
                               /\ pc' = "deps"
                     /\ UNCHANGED <<exit_code, uncaught>>
                ELSE /\ Exit(RETURN_CODE_OTHER_FAILURE)
                     /\ UNCHANGED <<checkout, touched, index>>
  /\ UNCHANGED <<options, workdir, server, rietveld_obj, properties,
                 issues_patchsets_to_apply, depends_on_info, reported,
                 fetched, patchset, scm_type, gclient_root, cmd, retcode>>

\* ---------------------------------------------------- gclient sync
\* Line 287: 'DEPS' in map(os.path.basename, patchset.filenames)
TouchesDeps(patches) == "DEPS" \in {Basename(f) : f \in Range(patches)}

\* Lines 287-288: DEPS is in the last patchset and --ignore_deps is off.
DepsChanged == TouchesDeps(patchset) /\ ~options.ignore_deps

\* The root found is not looked at.
InGclientCheckout_AnyRoot(root) == scm_type # "none"

\* Only git checkouts are synced.
InGclientCheckout_GitOnly(root) == root # "None" /\ scm_type = "git"

\* Line 290: gclient_root and scm_type
InGclientCheckout(root) == root # "None" /\ scm_type # "none"

\* Lines 298-306.
SyncCmd ==
  <<"gclient", "sync", "--nohooks", "--delete_unversioned_trees">>
    \o (IF scm_type = "svn" THEN <<"--revision", "BASE">> ELSE <<>>)
    \o (IF options.revision_mapping THEN <<"--output-json">> ELSE <<>>)

\* The exit code of gclient is dropped.
SyncResult_AlwaysOk(rc) == RETURN_CODE_OK

\* Every failure of gclient is reported as exit code 1.
SyncResult_OneOnFailure(rc) == IF rc = 0 THEN 0 ELSE RETURN_CODE_OTHER_FAILURE

\* Line 315: what main() returns once gclient exited with rc.
SyncResult(rc) == rc

\* Lines 287-316.
MaybeSync ==
  /\ pc = "deps"
  /\ IF DepsChanged
       THEN LET root == workdir.gclient_root
            IN /\ gclient_root' = root
               /\ IF InGclientCheckout(root)
                   THEN \E rc \in 0..MaxRetcode :
                          /\ cmd' = SyncCmd
                          /\ retcode' = rc
                          /\ calls' = Returned("gclient", "subprocess", SyncCmd)
                          /\ Exit(SyncResult(rc))
                   ELSE /\ Exit(RETURN_CODE_OK)
                        /\ UNCHANGED <<cmd, retcode, calls>>
       ELSE /\ Exit(RETURN_CODE_OK)
            /\ UNCHANGED <<gclient_root, cmd, retcode, calls>>
  /\ UNCHANGED <<options, workdir, server, rietveld_obj, properties,
                 issues_patchsets_to_apply, depends_on_info, reported, index,
                 fetched, patchset, scm_type, checkout, touched>>

\* --------------------------------------------------- specification
Next ==
  \/ ParseArgs
  \/ OAuth2Read
  \/ AnonymousRead
  \/ AuthenticatedRead
  \/ FirstDependsOn
  \/ ResolveDependency
  \/ GetPatch
  \/ ApplyPatch
  \/ MaybeSync

Spec == Init /\ [][Next]_vars

\* ------------------------------------------------- KeyboardInterrupt
\* The handler exits without a code.
OnKeyboardInterrupt_ExitOk == RETURN_CODE_OK

\* Lines 323-325: the exit code of the KeyboardInterrupt handler.
OnKeyboardInterrupt == RETURN_CODE_OTHER_FAILURE

\* Lines 321-325: the operator interrupts the process while main() runs;
\* KeyboardInterrupt unwinds main() and is caught around sys.exit(main()).
Interrupt ==
  /\ pc \notin {"done", "interrupted"}
  /\ pc' = "interrupted"
  /\ exit_code' = OnKeyboardInterrupt
  /\ uncaught' = FALSE
  /\ UNCHANGED <<options, workdir, server, rietveld_obj, properties,
                 issues_patchsets_to_apply, depends_on_info, reported, index,
                 fetched, patchset, scm_type, checkout, touched, gclient_root,
                 cmd, retcode, calls>>

NextInterruptible ==
  \/ Next
  \/ Interrupt

\* The runs of Spec, with an interrupt possible at every step.
SpecInterruptible == Init /\ [][NextInterruptible]_vars

\* ============================================================ claims
\* Views of the run used by the properties below.
CallsTo(ops) == SelectSeq(calls, LAMBDA c : c.op \in ops)
DependsOnCalls == CallsTo({"get_depends_on_patchset"})
PlanCalls == CallsTo({"get_patch", "apply_patch"})
LastCall == calls[Len(calls)]
SyncInvoked == cmd # <<>>
Plan == issues_patchsets_to_apply
\* Every entry of the plan was fetched and applied.
AllApplied == Plan # <<>> /\ checkout = Plan
\* The run ended because its last call failed.
EndedByFailedCall ==
  pc = "done" /\ calls # <<>> /\ LastCall.result # "ok"

\* C1: in the plan built by dependency resolution every entry is the
\* patchset that the next entry was reported to depend on, and the last entry
\* is the requested (issue, patchset).
C1_PlanInDependencyOrder ==
  Plan # <<>> =>
    /\ Plan[Len(Plan)] = Requested
    /\ \A i \in 1..(Len(Plan) - 1) :
         /\ Plan[i + 1] \in DOMAIN reported
         /\ reported[Plan[i + 1]] # None
         /\ LinkRef(reported[Plan[i + 1]]) = Plan[i]

\* A chain of two links without a cycle was resolved to its end.
C1_Witness ==
  /\ pc = "fetch"
  /\ Len(Plan) = 3
  /\ Cardinality(Range(Plan)) = 3
  /\ reported[Plan[1]] = None

\* C2: the plan entries are fetched and applied in plan order, a fetch
\* before its apply and both before the next fetch; a failed fetch or apply is
\* the last call on the plan, ends the run with a non-zero exit code (1 for a
\* patch that does not apply), and leaves the earlier entries applied.
C2_SequentialApplication ==
  LET n == Len(PlanCalls) IN
  /\ \A k \in 1..n :
       /\ PlanCalls[k].op = (IF k % 2 = 1 THEN "get_patch" ELSE "apply_patch")
       /\ PlanCalls[k].arg = Plan[(k + 1) \div 2]
       /\ k < n => PlanCalls[k].result = "ok"
  /\ checkout = SubSeq(Plan, 1, Len(SelectSeq(PlanCalls,
                  LAMBDA c : c.op = "apply_patch" /\ c.result = "ok")))
  /\ (n > 0 /\ PlanCalls[n].result # "ok") =>
       /\ pc = "done"
       /\ exit_code # 0
       /\ PlanCalls[n].op = "apply_patch" => exit_code = 1
       /\ checkout = SubSeq(Plan, 1, (n - 1) \div 2)

\* The second entry of a plan of three did not apply: the first stays applied.
C2_Witness ==
  /\ pc = "done"
  /\ Len(Plan) = 3
  /\ LastCall.op = "apply_patch"
  /\ LastCall.result = "PatchApplicationFailed"
  /\ LastCall.arg = Plan[2]
  /\ checkout = <<Plan[1]>>

\* The faults C3 names: a transport fault; a patch that does not apply,
\* rejected credentials, a missing patchset.
TransportFault(c) == c.result = "URLError"
ApplicationFault(c) ==
  \/ c.result = "PatchApplicationFailed"
  \/ c.result = "ClientLoginError"
  \/ c.result = "HTTPError" /\ c.code = 404
       /\ c.op \in {"get_depends_on_patchset", "get_patch"}

\* C3: a run that ends because a call failed with a transport fault exits
\* with 3, and one that ends because a patch did not apply, credentials were
\* rejected or a patchset is missing exits with 1.
C3_ExitCodeSeparatesFaults ==
  EndedByFailedCall =>
    /\ TransportFault(LastCall) => exit_code = RETURN_CODE_INFRA_FAILURE
    /\ ApplicationFault(LastCall) => exit_code = RETURN_CODE_OTHER_FAILURE

\* C4: a transport fault on a dependency query after the first one ends the
\* run with exit code 3, nothing having been fetched or applied.
C4_TransportFaultInChainAborts ==
  LET n == Len(DependsOnCalls) IN
  (n >= 2 /\ TransportFault(DependsOnCalls[n])) =>
    /\ pc = "done"
    /\ exit_code = RETURN_CODE_INFRA_FAILURE
    /\ PlanCalls = <<>>
    /\ checkout = <<>>
    /\ ~SyncInvoked

\* The third dependency query failed with a transport fault.
C4_Witness ==
  /\ Len(DependsOnCalls) = 3
  /\ TransportFault(DependsOnCalls[3])
  /\ pc = "done"

\* C5: when the lookup on the dependency of entry i (the requested
\* patchset is entry 0) answers not found, resolution stops with a plan of
\* i+1 entries that does not hold the missing patchset, and the run goes on
\* to fetch the plan's first entry.
C5_MissingDependencyTruncatesPlan ==
  LET n == Len(DependsOnCalls) IN
  (n >= 2 /\ DependsOnCalls[n].result = "HTTPError" /\ DependsOnCalls[n].code = 404) =>
    /\ Len(Plan) = n - 1
    /\ (\A k \in 1..(n - 1) : DependsOnCalls[k].arg # DependsOnCalls[n].arg)
         => DependsOnCalls[n].arg \notin Range(Plan)
    /\ LastCall = DependsOnCalls[n] =>
         /\ pc = "fetch"
         /\ index = 1
         /\ exit_code = Running
    /\ pc = "done" => LastCall # DependsOnCalls[n]

\* The dependency of the second entry is missing and the plan of two entries
\* was applied.
C5_Witness ==
  /\ Len(DependsOnCalls) = 3
  /\ DependsOnCalls[3].result = "HTTPError"
  /\ DependsOnCalls[3].code = 404
  /\ Len(Plan) = 2
  /\ AllApplied

\* C6: a command line with both --whitelist and --blacklist is rejected with
\* exit code 2 before any call is made.
C6_BothFiltersRejected ==
  (options.whitelist # {} /\ options.blacklist # {}) =>
    /\ pc \in {"start", "done"}
    /\ pc = "done" => exit_code = RETURN_CODE_ARGPARSE_FAILURE
    /\ calls = <<>>
    /\ checkout = <<>>

C6_Witness ==
  /\ options.whitelist # {}
  /\ options.blacklist # {}
  /\ pc = "done"

\* C7 as stated: with update.flag in the working directory the run exits
\* with 0 without any call.
C7_SentinelAlwaysNoOp ==
  (workdir.update_flag /\ pc = "done") => (exit_code = 0 /\ calls = <<>>)

\* C7 amended: with update.flag in the working directory, without --force
\* and without conflicting --whitelist/--blacklist or -e/-E, the run exits
\* with 0 without any network call, patch application or sync.
C7_SentinelNoOpUnlessForced ==
  ( /\ workdir.update_flag
    /\ ~options.force
    /\ ~(options.whitelist # {} /\ options.blacklist # {})
    /\ ~(options.email /\ options.email_file) ) =>
    /\ pc \in {"start", "done"}
    /\ pc = "done" => exit_code = 0
    /\ calls = <<>>
    /\ checkout = <<>>
    /\ ~SyncInvoked

C7_Witness ==
  /\ workdir.update_flag
  /\ ~options.force
  /\ pc = "done"
  /\ exit_code = 0

\* C8: gclient sync is invoked only if DEPS is among the touched filenames,
\* --ignore_deps was not given and the working directory is inside a gclient
\* checkout.
C8_SyncOnlyIfTriggered ==
  (SyncInvoked \/ "gclient" \in {calls[k].op : k \in 1..Len(calls)}) =>
    /\ "DEPS" \in {Basename(f) : f \in touched}
    /\ ~options.ignore_deps
    /\ workdir.gclient_root # "None"

C8_Witness ==
  /\ SyncInvoked
  /\ pc = "done"
  /\ Len(Plan) = 2

\* The trigger of C9: the patches applied of the requested patchset touch
\* DEPS, sync is not disabled, the checkout is inside a gclient checkout and
\* every entry was applied.
C9_Trigger ==
  /\ pc = "done"
  /\ AllApplied
  /\ TouchesDeps(patchset)
  /\ ~options.ignore_deps
  /\ workdir.gclient_root # "None"

SyncFlagsPassed ==
  /\ Len(cmd) >= 4
  /\ SubSeq(cmd, 2, 4) = <<"sync", "--nohooks", "--delete_unversioned_trees">>

\* C9 as stated: under the trigger gclient sync is invoked, whatever the
\* checkout kind.
C9_SyncForEveryCheckoutKind ==
  C9_Trigger => (SyncInvoked /\ SyncFlagsPassed)

\* C9 amended: under the trigger gclient sync is invoked with --nohooks
\* --delete_unversioned_trees when the checkout is svn or git; in a checkout
\* that is neither it is not invoked.
C9_SyncForScmCheckouts ==
  C9_Trigger =>
    /\ scm_type \in {"svn", "git"} => (SyncInvoked /\ SyncFlagsPassed)
    /\ scm_type = "none" => ~SyncInvoked

C9_Witness ==
  /\ C9_Trigger
  /\ scm_type = "svn"
  /\ SyncInvoked
  /\ options.whitelist # {}

\* C10: when gclient sync is invoked the exit code of the run is the exit
\* code of the subprocess; when it is not and every entry was applied, the
\* exit code is 0.
C10_ExitCodeIsSyncExitCode ==
  pc = "done" =>
    /\ SyncInvoked => exit_code = retcode
    /\ (~SyncInvoked /\ AllApplied) => exit_code = 0

\* gclient exited with a code that is none of main()'s own.
C10_Witness ==
  /\ pc = "done"
  /\ SyncInvoked
  /\ retcode = MaxRetcode
  /\ exit_code = MaxRetcode

\* C11: the sync decision is taken on the filenames touched by all applied
\* patchsets: when any of them touches DEPS in an svn or git checkout inside
\* a gclient checkout, without --ignore_deps, gclient sync is invoked.
C11_SyncOnAnyTouchedDeps ==
  ( /\ pc = "done"
    /\ AllApplied
    /\ "DEPS" \in {Basename(f) : f \in touched}
    /\ ~options.ignore_deps
    /\ workdir.gclient_root # "None"
    /\ scm_type \in {"svn", "git"} ) => SyncInvoked

\* C12: an interrupt at any point of main() ends the process with a non-zero
\* exit code through the handler, not as an uncaught exception.
C12_InterruptCaught ==
  /\ pc \notin {"done", "interrupted"} => ENABLED Interrupt
  /\ pc = "interrupted" => (exit_code # 0 /\ exit_code # Running /\ ~uncaught)

\* The run was interrupted between two entries of the plan.
C12_Witness ==
  /\ pc = "interrupted"
  /\ checkout # <<>>
  /\ Len(checkout) < Len(Plan)

IssueReads == CallsTo({"get_issue_properties"})
ReadsWith(client) == SelectSeq(IssueReads, LAMBDA c : c.client = client)
LoginRedirect(c) == c.result = "HTTPError" /\ c.code = 302

\* C13: with a private key the issue is read once, with the OAuth2 client
\* only, and a failure of that read ends the run.
C13_PrivateKeyOnlyOAuth2 ==
  options.private_key_file =>
    /\ Len(IssueReads) <= 1
    /\ \A k \in 1..Len(IssueReads) : IssueReads[k].client = "JwtOAuth2Rietveld"
    /\ pc # "login"
    /\ (IssueReads # <<>> /\ IssueReads[1].result # "ok") =>
         /\ pc = "done"
         /\ exit_code # 0
         /\ Len(calls) = 1

\* The OAuth2 read was answered with a login redirect and the run ended.
C13_Witness ==
  /\ options.private_key_file
  /\ IssueReads # <<>>
  /\ LoginRedirect(IssueReads[1])
  /\ pc = "done"

\* C14: without a private key the first read is unauthenticated; a login
\* redirect with --no-auth ends the run with exit code 1 and no authenticated
\* read; without --no-auth the read is made once more, authenticated; no
\* authenticated read is made otherwise.
C14_AuthenticatedFallback ==
  LET anon == ReadsWith("Rietveld(None)")
      auth == ReadsWith("Rietveld(auth_config)")
  IN  (~options.private_key_file /\ IssueReads # <<>>) =>
        /\ IssueReads[1].client = "Rietveld(None)"
        /\ Len(anon) = 1
        /\ Len(auth) <= 1
        /\ Len(IssueReads) = Len(anon) + Len(auth)
        /\ (LoginRedirect(IssueReads[1]) /\ options.no_auth) =>
             /\ pc = "done"
             /\ exit_code = 1
             /\ auth = <<>>
             /\ Len(calls) = 1
        /\ (LoginRedirect(IssueReads[1]) /\ ~options.no_auth) =>
             \/ pc = "login" /\ auth = <<>>
             \/ /\ Len(IssueReads) = 2
                /\ IssueReads[2].client = "Rietveld(auth_config)"
                /\ IssueReads[2].arg = IssueReads[1].arg
        /\ auth # <<>> => (LoginRedirect(IssueReads[1]) /\ ~options.no_auth)
        /\ IssueReads[1].result = "ok" => auth = <<>>

\* The authenticated retry succeeded and the run went on.
C14_Witness ==
  /\ ~options.private_key_file
  /\ Len(IssueReads) = 2
  /\ IssueReads[2].result = "ok"
  /\ pc = "done"
  /\ exit_code = 0

\* C15: during and after dependency resolution the plan has at least one
\* entry and holds no (issue, patchset) twice.
C15_PlanHasNoRepeat ==
  /\ pc \in {"depends_on", "resolve", "fetch", "apply", "deps"} => Len(Plan) >= 1
  /\ Cardinality(Range(Plan)) = Len(Plan)

\* C16: a dependency link to a patchset already in the plan ends the
\* resolution: the resolver is never about to look up a patchset it has
\* already planned.
C16_RepeatEndsResolution ==
  pc = "resolve" => LinkRef(depends_on_info) \notin Range(Plan)

Phase(op) ==
  CASE op = "get_issue_properties" -> 1
    [] op = "get_depends_on_patchset" -> 2
    [] op \in {"get_patch", "apply_patch"} -> 3
    [] op = "gclient" -> 4

\* C17: the calls of a run go forward through read, resolution, fetch/apply
\* and sync; nothing is fetched before resolution has ended; gclient is
\* called at most once, after every entry was applied; each entry is fetched
\* and applied at most once; a failed call is not made again, but for the
\* authenticated retry of the issue read.
C17_ForwardWithoutRetry ==
  LET fetches == CallsTo({"get_patch"})
      applies == CallsTo({"apply_patch"})
      syncs == CallsTo({"gclient"})
  IN  /\ \A i \in 1..Len(calls) : \A j \in (i + 1)..Len(calls) :
           /\ Phase(calls[i].op) <= Phase(calls[j].op)
           /\ (calls[i].result # "ok" /\ calls[j].op = calls[i].op
                 /\ calls[j].arg = calls[i].arg) =>
                /\ calls[i].op = "get_issue_properties"
                /\ calls[i].client = "Rietveld(None)"
                /\ calls[j].client = "Rietveld(auth_config)"
                /\ j = i + 1
      /\ pc \in {"start", "connect", "login", "depends_on", "resolve"}
           => (fetches = <<>> /\ applies = <<>>)
      /\ Len(syncs) <= 1
      /\ syncs # <<>> => (AllApplied /\ pc = "done" /\ LastCall.op = "gclient")
      /\ Len(fetches) <= Len(Plan)
      /\ Len(applies) <= Len(fetches)
      /\ \A k \in 1..Len(fetches) : fetches[k].arg = Plan[k]
      /\ \A k \in 1..Len(applies) : applies[k].arg = Plan[k]

\* A run with the authenticated retry, a plan applied and gclient called.
C17_Witness ==
  /\ pc = "done"
  /\ Len(IssueReads) = 2
  /\ AllApplied
  /\ SyncInvoked

\* The filter the command line asks for.
Kept(f) ==
  IF options.whitelist # {} THEN f \in options.whitelist
  ELSE IF options.blacklist # {} THEN f \notin options.blacklist
  ELSE TRUE

\* The place of f in the list s that holds it once.
PlaceIn(s, f) == CHOOSE i \in 1..Len(s) : s[i] = f

\* C18: the patch list handed to the applier is the fetched list without
\* the files the filter drops, in the fetched order (unchanged without a
\* filter); an empty list is applied successfully and the loop goes on.
C18_FilteredPatchList ==
  /\ Range(patchset) = {f \in Range(fetched) : Kept(f)}
  /\ Cardinality(Range(patchset)) = Len(patchset)
  /\ \A i \in 1..Len(patchset) : \A j \in (i + 1)..Len(patchset) :
       PlaceIn(fetched, patchset[i]) < PlaceIn(fetched, patchset[j])
  /\ (options.whitelist = {} /\ options.blacklist = {}) => patchset = fetched
  /\ (calls # <<>> /\ LastCall.op = "apply_patch" /\ patchset = <<>>) =>
       /\ LastCall.result = "ok"
       /\ pc \in {"fetch", "deps", "done"}
       /\ exit_code \in {Running, RETURN_CODE_OK}
       /\ checkout[Len(checkout)] = LastCall.arg

\* A whitelist matched no file of the fetched patchset and the loop went on
\* to the next entry.
C18_Witness ==
  /\ options.whitelist # {}
  /\ fetched # <<>>
  /\ patchset = <<>>
  /\ LastCall.op = "apply_patch"
  /\ pc = "fetch"

\* C19: a run that update.flag did not short-circuit exits with 0 only if
\* every entry of the plan was fetched and applied and gclient, if called,
\* exited with 0.
C19_SuccessMeansAllApplied ==
  (pc = "done" /\ exit_code = 0 /\ ~(workdir.update_flag /\ ~options.force)) =>
    /\ AllApplied
    /\ Len(PlanCalls) = 2 * Len(Plan)
    /\ \A k \in 1..Len(PlanCalls) : PlanCalls[k].result = "ok"
    /\ SyncInvoked => retcode = 0

C19_Witness ==
  /\ pc = "done"
  /\ exit_code = 0
  /\ Len(Plan) = 2
  /\ SyncInvoked
  /\ retcode = 0

HttpLevel(c) == c.result \in {"HTTPError", "ClientLoginError"}

\* C20: an http error on the first dependency query ends the run with exit
\* code 3, nothing fetched or applied; on a later query it ends the
\* resolution, the dependency asked about stays out of the plan and the run
\* goes on to fetch.
C20_HttpErrorByDepth ==
  LET n == Len(DependsOnCalls) IN
  /\ (n >= 1 /\ HttpLevel(DependsOnCalls[1])) =>
       /\ n = 1
       /\ pc = "done"
       /\ exit_code = RETURN_CODE_INFRA_FAILURE
       /\ PlanCalls = <<>>
       /\ checkout = <<>>
  /\ (n >= 2 /\ HttpLevel(DependsOnCalls[n])) =>
       /\ Len(Plan) = n - 1
       /\ Plan[1] = DependsOnCalls[n - 1].arg
       /\ LastCall = DependsOnCalls[n] =>
            (pc = "fetch" /\ index = 1 /\ exit_code = Running)
       /\ pc = "done" => LastCall.op # "get_depends_on_patchset"

\* The second query failed with an http error and the plan of one entry was
\* applied.
C20_Witness ==
  /\ Len(DependsOnCalls) = 2
  /\ HttpLevel(DependsOnCalls[2])
  /\ pc = "done"
  /\ exit_code = 0
  /\ AllApplied

====
